---- MODULE Spec2Model ----
(***************************************************************************)
(* Binaural Pathfinder: the evolutionary path search of main.js (second,   *)
(* target-aware copy, lines 523-1174) and the 2D curve sampler of the SVG  *)
(* view.                                                                   *)
(*                                                                         *)
(* Numbers.  The program computes in IEEE doubles; the model computes in   *)
(* fixed point.  World coordinates are integers in units of 1/Unit, a      *)
(* random float r in [0,1) is the 32-bit xorshift word s with r = s/2^32,  *)
(* and every product with r is floored to the grid.  Intensities and       *)
(* fitness are integers in units of 1/IScale.  Curve parameters of the 3D  *)
(* path are multiples of 1/TRes.  The 2D sampler is computed in exact      *)
(* rationals (numerators over a common denominator).                       *)
(***************************************************************************)
EXTENDS Integers, Sequences, FiniteSets, TLC

\* ------------------------------------------------------------------ bounds
\* grid resolution of world coordinates (points per world unit)
Unit == 10
\* fixed-point scale of intensities and fitness
IScale == 1000000
\* arc-length table size of one curve (THREE: arcLengthDivisions = 200)
ArcDiv == 2
\* parameter steps between two arc-length table entries
TSub == 4
\* PARAMS.popSize of the model (program: 28)
PopSize == 3
\* PARAMS.ctrlCount of the model (program: 4)
CtrlCount == 2
\* PARAMS.generations of the model (program: 45)
Generations == 2
\* sample count of evaluateFitness in the model (program: 80)
FitSteps == 2
\* sample count of showBest in the model (program: 180)
ShowSteps == 3
\* largest sample count the curve builders are tried with
MaxSteps == 9
\* points of the path the 2D view animates its dot along (180 in the program)
DotSteps == 3
\* calls of create() in the 2D view, the one at load included
MaxCreates == 4

\* ------------------------------------------------------- program constants
\* tournament size k of tournamentSelect
TournamentK == 3
\* fitness of a genome that was never evaluated (-Infinity): below every
\* value evaluateFitness can return
NegInf == -2000000000

TRes == ArcDiv * TSub

Max(a, b) == IF a >= b THEN a ELSE b
Min(a, b) == IF a <= b THEN a ELSE b

Pt(x, z) == [x |-> x, z |-> z]

\* const v = x; F(v): x is computed once and F works on its value
Bind(x, F(_)) == CHOOSE r \in { F(v) : v \in { x } } : TRUE

\* ---------------------------------------------------------------- utilities
\* lerp(a, b, t) with t = num/den, floored to the grid
lerp(a, b, num, den) == a + ((b - a) * num) \div den

\* floor(sqrt(n)) by bisection on [lo, hi]
RECURSIVE SqrtBetween(_, _, _)
SqrtBetween(n, lo, hi) ==
  IF lo >= hi THEN lo
  ELSE Bind((lo + hi + 1) \div 2, LAMBDA mid :
         IF mid * mid <= n THEN SqrtBetween(n, mid, hi)
         ELSE SqrtBetween(n, lo, mid - 1))

Sqrt(n) == SqrtBetween(n, 0, IF n < 1048576 THEN 1023 ELSE 46340)

\* squared distance, exact
Dist2(p, q) == (p.x - q.x) * (p.x - q.x) + (p.z - q.z) * (p.z - q.z)

\* Vector3.distanceTo, floored to the grid
distanceTo(p, q) == Bind(Dist2(p, q), Sqrt)

\* ----------------------------------------------------------------- xorshift32
\* The generator state is the 32-bit word s, kept as its two 16-bit halves
\* << high, low >>.
W16 == 65536

\* bitwise exclusive or of two naturals, bit by bit
RECURSIVE XorBits(_, _)
XorBits(a, b) ==
  IF a = 0 THEN b
  ELSE IF b = 0 THEN a
  ELSE ((a + b) % 2) + 2 * XorBits(a \div 2, b \div 2)

\* the exclusive or of the hexadecimal digits a - 1 and b - 1, for b from j on
RECURSIVE XorRow(_, _)
XorRow(a, j) ==
  IF j > 16 THEN << >> ELSE << XorBits(a - 1, j - 1) >> \o XorRow(a, j + 1)

RECURSIVE XorRows(_)
XorRows(i) == IF i > 16 THEN << >> ELSE << XorRow(i, 1) >> \o XorRows(i + 1)

XorDigits == XorRows(1)

\* bitwise exclusive or of two 16-bit naturals, four bits at a time
XorNat(a, b) ==
  IF a = 0 THEN b
  ELSE IF b = 0 THEN a
  ELSE XorDigits[(a % 16) + 1][(b % 16) + 1]
       + 16 * XorDigits[((a \div 16) % 16) + 1][((b \div 16) % 16) + 1]
       + 256 * XorDigits[((a \div 256) % 16) + 1][((b \div 256) % 16) + 1]
       + 4096 * XorDigits[(a \div 4096) + 1][(b \div 4096) + 1]

Xor(a, b) == << XorNat(a[1], b[1]), XorNat(a[2], b[2]) >>

\* s << n for 0 < n < 16, cut to 32 bits
Shl(a, n) ==
  LET keep == 2 ^ (16 - n)
  IN << (a[1] % keep) * (2 ^ n) + a[2] \div keep, (a[2] % keep) * (2 ^ n) >>

\* s >>> n for 16 <= n < 32
Shr(a, n) == << 0, a[1] \div (2 ^ (n - 16)) >>

\* seedRandom(seed): s = seed >>> 0, seed = (Math.random()*1e9)|0 < 2^31
seedRandom(seed) == << seed \div W16, seed % W16 >>

\* one call of rand(): s ^= s << 13; s ^= s >>> 17; s ^= s << 5; the call
\* returns (s >>> 0) / 2^32 of the new s
randNext(s) ==
  Bind(s, LAMBDA s0 :
  Bind(Xor(s0, Shl(s0, 13)), LAMBDA a :
  Bind(Xor(a, Shr(a, 17)), LAMBDA b :
    Xor(b, Shl(b, 5)))))

Hi(s) == s[1]
Lo(s) == s[2]

\* floor(r * n) for r = s/2^32 and any integer n
MulRand(s, n) == (Hi(s) * n + ((Lo(s) * n) \div W16)) \div W16

\* r < num/den for r = s/2^32, den > 0
RandLess(s, num, den) ==
  Hi(s) * den + ((Lo(s) * den) \div W16) < num * W16

\* (rand()*2 - 1) * amount, floored to the grid
RandOffset(s, amount) == MulRand(s, 2 * amount) - amount

\* ------------------------------------------------------------------- world
\* WORLD.A, WORLD.B, and the speakers' base positions (x, z; y is 0)
WorldA == Pt(-16 * Unit, 10 * Unit)
WorldB == Pt(16 * Unit, -8 * Unit)
BaseSpeakerL == Pt(-10 * Unit, -6 * Unit)
BaseSpeakerR == Pt(12 * Unit, 6 * Unit)

\* ----------------------------------------------------- curve builder (3D)
\* The cubic Bezier of segment i of pts (1-based), its four control points
\* in sixths of a grid unit: p1, p1 + (p2 - p0)/6, p2 + (p1 - p3)/6, p2.
CubicBezierCurve3(pts, i) ==
  LET n  == Len(pts)
      p0 == pts[Max(1, i - 1)]
      p1 == pts[i]
      p2 == pts[i + 1]
      p3 == pts[Min(n, i + 2)]
  IN << Pt(6 * p1.x, 6 * p1.z),
        Pt(6 * p1.x + (p2.x - p0.x), 6 * p1.z + (p2.z - p0.z)),
        Pt(6 * p2.x + (p1.x - p3.x), 6 * p2.z + (p1.z - p3.z)),
        Pt(6 * p2.x, 6 * p2.z) >>

\* CubicBezierCurve3.getPoint(t) at t = k/TRes, floored to the grid
CurveGetPoint(c, k) ==
  LET r  == TRes - k
      w0 == r * r * r
      w1 == 3 * r * r * k
      w2 == 3 * r * k * k
      w3 == k * k * k
      d  == 6 * TRes * TRes * TRes
  IN Pt((w0 * c[1].x + w1 * c[2].x + w2 * c[3].x + w3 * c[4].x) \div d,
        (w0 * c[1].z + w1 * c[2].z + w2 * c[3].z + w3 * c[4].z) \div d)

\* Curve.getLengths(): cumulative chord lengths at t = j/ArcDiv, j = 0..ArcDiv,
\* as a sequence whose entry j+1 is the length up to t = j/ArcDiv
RECURSIVE CurveGetLengths(_, _)
CurveGetLengths(c, j) ==
  IF j = 0 THEN << 0 >>
  ELSE Bind(CurveGetLengths(c, j - 1), LAMBDA prev :
       Bind(CurveGetPoint(c, (j - 1) * TSub), LAMBDA from :
       Bind(CurveGetPoint(c, j * TSub), LAMBDA to :
         Append(prev, prev[j] + distanceTo(from, to)))))

\* the largest table index k (0-based) with a[k] * div <= tn, searched upward
RECURSIVE ArcIndex(_, _, _, _)
ArcIndex(a, tn, div, k) ==
  IF k < ArcDiv /\ a[k + 2] * div <= tn THEN ArcIndex(a, tn, div, k + 1) ELSE k

\* Curve.getUtoTmapping for the arc length tn/div along a curve with table a:
\* the parameter, in steps of 1/TRes
CurveUtoT(a, tn, div) ==
  Bind(ArcIndex(a, tn, div, 0), LAMBDA k :
    IF a[k + 1] * div = tn \/ k = ArcDiv THEN k * TSub
    ELSE k * TSub
         + (TSub * (tn - a[k + 1] * div)) \div ((a[k + 2] - a[k + 1]) * div))

\* CurvePath.getCurveLengths(): cumulative lengths of the curves
RECURSIVE PathCurveLengths(_, _)
PathCurveLengths(tables, i) ==
  IF i = 0 THEN << >>
  ELSE Bind(PathCurveLengths(tables, i - 1), LAMBDA prev :
         Append(prev, (IF i = 1 THEN 0 ELSE prev[i - 1])
                      + tables[i][ArcDiv + 1]))

\* the first curve whose cumulative length reaches d/div of the total
RECURSIVE PathCurveIndex(_, _, _, _)
PathCurveIndex(cum, d, div, i) ==
  IF i < Len(cum) /\ cum[i] * div < d * cum[Len(cum)]
  THEN PathCurveIndex(cum, d, div, i + 1) ELSE i

\* a getPoint that takes u = diff/segmentLength, the curve run backwards
PathGetPointReversed(curves, tables, cum, d, div) ==
  Bind(PathCurveIndex(cum, d, div, 1), LAMBDA i :
    LET before == IF i = 1 THEN 0 ELSE cum[i - 1]
        segLen == tables[i][ArcDiv + 1]
        tn     == d * cum[Len(cum)] - before * div
    IN IF segLen = 0 THEN CurveGetPoint(curves[i], 0)
       ELSE Bind(CurveUtoT(tables[i], segLen * div - tn, div), LAMBDA t :
              CurveGetPoint(curves[i], t)))

\* CurvePath.getPoint(d/div): the curve holding that share of the length,
\* then Curve.getPointAt(u) with u = 1 - diff/segmentLength (0 for an empty one)
PathGetPoint(curves, tables, cum, d, div) ==
  Bind(PathCurveIndex(cum, d, div, 1), LAMBDA i :
    LET before == IF i = 1 THEN 0 ELSE cum[i - 1]
        segLen == tables[i][ArcDiv + 1]
        tn     == d * cum[Len(cum)] - before * div
    IN IF segLen = 0 THEN CurveGetPoint(curves[i], 0)
       ELSE Bind(CurveUtoT(tables[i], tn, div), LAMBDA t :
              CurveGetPoint(curves[i], t)))

\* the tables of the curves from curve i on
RECURSIVE CurveTables(_, _)
CurveTables(curves, i) ==
  IF i > Len(curves) THEN << >>
  ELSE << CurveGetLengths(curves[i], ArcDiv) >> \o CurveTables(curves, i + 1)

\* the points at d/divisions for d = from .. count-1
RECURSIVE SpacedFrom(_, _, _, _, _, _)
SpacedFrom(curves, tables, cum, divisions, count, d) ==
  IF d >= count THEN << >>
  ELSE << PathGetPoint(curves, tables, cum, d, divisions) >>
       \o SpacedFrom(curves, tables, cum, divisions, count, d + 1)

SpacedPointsUpTo(curves, divisions, count) ==
  Bind(CurveTables(curves, 1), LAMBDA tables :
  Bind(PathCurveLengths(tables, Len(curves)), LAMBDA cum :
    SpacedFrom(curves, tables, cum, divisions, count, 0)))

\* a sampler whose loop stops one short: for (i = 0; i < divisions; i++)
getSpacedPointsShort(curves, divisions) ==
  SpacedPointsUpTo(curves, divisions, divisions)

\* CurvePath.getSpacedPoints(divisions): for (i = 0; i <= divisions; i++)
\* points.push(getPoint(i / divisions))
getSpacedPoints(curves, divisions) ==
  SpacedPointsUpTo(curves, divisions, divisions + 1)

\* pathPoints(genome, steps): A, the control points and B joined by one cubic
\* Bezier per segment, sampled by getSpacedPoints(steps)
RECURSIVE PathCurves(_, _)
PathCurves(pts, i) ==
  IF i > Len(pts) - 1 THEN << >>
  ELSE << CubicBezierCurve3(pts, i) >> \o PathCurves(pts, i + 1)

pathPoints(ctrl, steps) ==
  Bind(<< WorldA >> \o ctrl \o << WorldB >>, LAMBDA pts :
  Bind(PathCurves(pts, 1), LAMBDA curves :
    getSpacedPoints(curves, steps)))

\* ----------------------------------------------------- curve builder (2D)
\* World points of the SVG view
SvgA == [x |-> 120, y |-> 560]
SvgB == [x |-> 1040, y |-> 160]

\* cmp(a, b, c, d) of catmull at t = tn/td, as a numerator over 2 * td^3
CatmullCmp(a, b, c, d, tn, td) ==
  2 * b * td * td * td
  + (c - a) * tn * td * td
  + (2 * a - 5 * b + 4 * c - d) * tn * tn * td
  + (3 * b - a - 3 * c + d) * tn * tn * tn

\* catmull(i, t) for segment i (1-based) of p at t = tn/td: an exact rational
\* point, the coordinates xn/den and yn/den
catmull(p, i, tn, td) ==
  LET p0 == p[Max(1, i - 1)]
      p1 == p[i]
      p2 == p[i + 1]
      p3 == p[Min(Len(p), i + 2)]
  IN [xn  |-> CatmullCmp(p0.x, p1.x, p2.x, p3.x, tn, td),
      yn  |-> CatmullCmp(p0.y, p1.y, p2.y, p3.y, tn, td),
      den |-> 2 * td * td * td]

\* the inner loop of bezierPoints for segment i: j = 0, 1, .. while
\* j < n/segs, each sample at t = j / max(1, n/segs - 1)
RECURSIVE BezierSegment(_, _, _, _)
BezierSegment(p, i, n, j) ==
  LET segs == Len(p) - 1
      wide == n - segs >= segs
      tn   == IF wide THEN j * segs ELSE j
      td   == IF wide THEN n - segs ELSE 1
  IN IF j * segs < n
     THEN << catmull(p, i, tn, td) >> \o BezierSegment(p, i, n, j + 1)
     ELSE << >>

RECURSIVE BezierSegments(_, _, _)
BezierSegments(p, i, n) ==
  IF i > Len(p) - 1 THEN << >>
  ELSE BezierSegment(p, i, n, 0) \o BezierSegments(p, i + 1, n)

\* bezierPoints(ctrl, n)
bezierPoints(ctrl, n) ==
  Bind(<< SvgA >> \o ctrl \o << SvgB >>, LAMBDA p : BezierSegments(p, 1, n))

\* whether the rational point q is the point a
SamePoint2(q, a) == q.xn = a.x * q.den /\ q.yn = a.y * q.den

\* ------------------------------------------------------------ speaker jitter
MinDist == 6 * Unit
JitterAmount == (25 * Unit) \div 10

\* a separation step that moves R by minDist from where R was, not from L
SeparateFromSelf(l, r) ==
  IF Dist2(l, r) < MinDist * MinDist
  THEN IF r.x <= l.x THEN Pt(r.x + MinDist, r.z) ELSE Pt(r.x - MinDist, r.z)
  ELSE r

\* the separation step of jitterSpeakers: when L and R are closer than
\* minDist, R.x is moved to minDist from L.x, to the right of L when R was
\* left of it or level with it, else to the left
SeparateSpeakers(l, r) ==
  IF Dist2(l, r) < MinDist * MinDist
  THEN IF r.x <= l.x THEN Pt(l.x + MinDist, r.z) ELSE Pt(l.x - MinDist, r.z)
  ELSE r

\* jitterSpeakers(amount) from generator state s: four draws (L.x, L.z, R.x,
\* R.z) around the base positions, then the separation step
jitterSpeakers(s, baseL, baseR, amount) ==
  Bind(randNext(s), LAMBDA s1 :
  Bind(randNext(s1), LAMBDA s2 :
  Bind(randNext(s2), LAMBDA s3 :
  Bind(randNext(s3), LAMBDA s4 :
  Bind(Pt(baseL.x + RandOffset(s1, amount), baseL.z + RandOffset(s2, amount)),
       LAMBDA l :
  Bind(Pt(baseR.x + RandOffset(s3, amount), baseR.z + RandOffset(s4, amount)),
       LAMBDA r :
    [speakerL |-> l, speakerR |-> SeparateSpeakers(l, r), raw |-> r,
     s |-> s4]))))))

\* ------------------------------------------------------------------- state
VARIABLES
  PARAMS,      \* the configuration object PARAMS
  speakerL,    \* WORLD.speakerL
  speakerR,    \* WORLD.speakerR
  TARGET,      \* the targeting mode: "either", "left" or "right"
  rand,        \* the word s of the generator behind rand()
  nextId,      \* identity of the next Vector3 allocated for a control point
  population,  \* the current population, a sequence of genomes
  gen,         \* the generation counter shown by the HUD
  running,     \* whether a run is in progress
  lastBest,    \* the best-ever genome, or Null
  stepI,       \* i of the running runEvolution call
  playArg,     \* play of the running runEvolution call
  timer,       \* whether a setTimeout(stepGen, 250) is pending
  headVisible, \* bestPathHead.visible
  animPath,    \* the points last handed to the renderer by showBest
  err,         \* the exception that ended the last handler, or "none"
  \* history of the current run, kept for the properties
  restarted,   \* whether the run began after an earlier run had ended
  runKey,      \* seed, play, target and speaker positions the run began from
  hist,        \* what each updateHUD of the run itself showed: gen, best, size
  shown,       \* the fitness of each genome showBest was called with
  prevPop,     \* the population the last generation step bred from
  newPopBuilt, \* newPop of the last generation step before its evaluation
  breeding,    \* per pass of that step's breeding loop: p1, p2, c and mutate(c)
  modesRead,   \* TARGET as each forEach(evaluateFitness) of the run read it
  \* the 2D view
  svg,         \* the dots that are children of the svg, the callbacks of
               \* requestAnimationFrame that are pending, the exception thrown
  \* the pure functions tried on enumerated inputs
  fin,         \* the input
  fout         \* the output, or Null

vars == << PARAMS, speakerL, speakerR, TARGET, rand, nextId, population, gen,
           running, lastBest, stepI, playArg, timer, headVisible, animPath,
           err, restarted, runKey, hist, shown, prevPop, newPopBuilt, breeding,
           modesRead, svg, fin, fout >>

Null == [null |-> TRUE]

\* -------------------------------------------------------- genomes, operators
\* The generator word s and the allocation counter n travel together as e.
Env(s, n) == [s |-> s, n |-> n]

\* the loop of makeGenome from index i (0-based): ctrlCount points around the
\* line from A to B, x jittered by 8 and z by 6
RECURSIVE MakeCtrl(_, _, _)
MakeCtrl(e, count, i) ==
  IF i >= count THEN [ctrl |-> << >>, e |-> e]
  ELSE Bind(randNext(e.s), LAMBDA s1 :
       Bind(randNext(s1), LAMBDA s2 :
       Bind(MakeCtrl(Env(s2, e.n + 1), count, i + 1), LAMBDA rest :
         LET p == [id |-> e.n,
                   x  |-> lerp(WorldA.x, WorldB.x, i + 1, count + 1)
                            + RandOffset(s1, 8 * Unit),
                   z  |-> lerp(WorldA.z, WorldB.z, i + 1, count + 1)
                            + RandOffset(s2, 6 * Unit)]
         IN [ctrl |-> << p >> \o rest.ctrl, e |-> rest.e])))

\* a genome with one control point more than asked for
makeGenomeOneMore(e, count) ==
  Bind(MakeCtrl(e, count + 1, 0), LAMBDA made :
    [g |-> [ctrl |-> made.ctrl, fitness |-> NegInf], e |-> made.e])

makeGenome(e, count) ==
  Bind(MakeCtrl(e, count, 0), LAMBDA made :
    [g |-> [ctrl |-> made.ctrl, fitness |-> NegInf], e |-> made.e])

\* makeInitialPopulation: for (i = 0; i < popSize; i++) pop.push(makeGenome())
RECURSIVE MakePopulation(_, _, _, _)
MakePopulation(e, size, count, i) ==
  IF i >= size THEN [pop |-> << >>, e |-> e]
  ELSE Bind(makeGenome(e, count), LAMBDA one :
       Bind(MakePopulation(one.e, size, count, i + 1), LAMBDA rest :
         [pop |-> << one.g >> \o rest.pop, e |-> rest.e]))

makeInitialPopulation(e, size, count) == MakePopulation(e, size, count, 0)

\* g.ctrl.map(p => p.clone()) from index i: each point a new Vector3
RECURSIVE CloneCtrl(_, _, _)
CloneCtrl(ctrl, n, i) ==
  IF i > Len(ctrl) THEN << >>
  ELSE << [id |-> n + i - 1, x |-> ctrl[i].x, z |-> ctrl[i].z] >>
       \o CloneCtrl(ctrl, n, i + 1)

\* a copy that shares the control points of g: ctrl: g.ctrl
cloneGenomeShared(g, n) == [g |-> g, n |-> n]

\* cloneGenome: the control points cloned, the fitness copied
cloneGenome(g, n) ==
  [g |-> [ctrl |-> CloneCtrl(g.ctrl, n, 1), fitness |-> g.fitness],
   n |-> n + Len(g.ctrl)]

\* intensityAtPoint(point, speakerPos, 1.0) = 1 / (distance + 0.2)^2
intensityAtPoint(p, speakerPos) ==
  Bind(distanceTo(p, speakerPos) + Unit \div 5, LAMBDA d :
    (Unit * Unit * IScale) \div (d * d))

\* a reward that takes the louder speaker whatever the targeting mode
LoudEitherOnly(il, ir, target) == Max(il, ir)

\* clamp(v, lo, hi) = Math.max(lo, Math.min(hi, v))
clamp(v, lo, hi) == Max(lo, Min(hi, v))

\* the floor 1e-5 of the intensity sum
BalanceFloor == IScale \div 100000

\* a sum with the floor at 1 instead of 1e-5
BalanceSumFlooredAtOne(il, ir) == Max(il + ir, IScale)

\* sum = Math.max(Il + Ir, 1e-5)
BalanceSum(il, ir) == Max(il + ir, BalanceFloor)

\* blueness and redness at point p as fractions of den: clamp(Il / sum, 0, 1)
\* is clamp(Il, 0, sum) / sum
Balance(p, spL, spR) ==
  Bind(intensityAtPoint(p, spL), LAMBDA il :
  Bind(intensityAtPoint(p, spR), LAMBDA ir :
  Bind(BalanceSum(il, ir), LAMBDA sum :
    [blueness |-> clamp(il, 0, sum), redness |-> clamp(ir, 0, sum),
     den |-> sum])))

\* the positions animate gives the head half way between the points of path:
\* lerpVectors(a, b, f - i)
HeadPositions(path) ==
  [i \in 1..(Len(path) - 1) |->
     Pt(lerp(path[i].x, path[i + 1].x, 1, 2),
        lerp(path[i].z, path[i + 1].z, 1, 2))]

\* the reward of one sample under the targeting mode
Loud(il, ir, target) ==
  IF target = "left" THEN il ELSE IF target = "right" THEN ir ELSE Max(il, ir)

RECURSIVE SumLoud(_, _, _, _, _)
SumLoud(pts, i, spL, spR, target) ==
  IF i > Len(pts) THEN 0
  ELSE Bind(intensityAtPoint(pts[i], spL), LAMBDA il :
       Bind(intensityAtPoint(pts[i], spR), LAMBDA ir :
         Loud(il, ir, target) + SumLoud(pts, i + 1, spL, spR, target)))

RECURSIVE PathLength(_, _)
PathLength(pts, i) ==
  IF i > Len(pts) THEN 0
  ELSE distanceTo(pts[i - 1], pts[i]) + PathLength(pts, i + 1)

\* evaluateFitness(genome): sum - 0.25 * (len / steps) + goalBonus
evaluateFitness(ctrl, spL, spR, target) ==
  Bind(pathPoints(ctrl, FitSteps), LAMBDA pts :
    LET sum == SumLoud(pts, 1, spL, spR, target)
        len == PathLength(pts, 2)
    IN sum - ((IScale \div 4) * len) \div (Unit * FitSteps) + IScale)

\* pop.forEach(evaluateFitness) from index i
RECURSIVE EvaluateFrom(_, _, _, _, _)
EvaluateFrom(pop, i, spL, spR, target) ==
  IF i > Len(pop) THEN << >>
  ELSE << [ctrl    |-> pop[i].ctrl,
           fitness |-> evaluateFitness(pop[i].ctrl, spL, spR, target)] >>
       \o EvaluateFrom(pop, i + 1, spL, spR, target)

EvaluateAll(pop, spL, spR, target) == EvaluateFrom(pop, 1, spL, spR, target)

\* Il, Ir and loud of evaluateFitness's loop for the samples from index i
RECURSIVE RewardSamples(_, _, _, _, _)
RewardSamples(pts, i, spL, spR, target) ==
  IF i > Len(pts) THEN << >>
  ELSE Bind(intensityAtPoint(pts[i], spL), LAMBDA il :
       Bind(intensityAtPoint(pts[i], spR), LAMBDA ir :
         << [il |-> il, ir |-> ir, loud |-> Loud(il, ir, target)] >>
         \o RewardSamples(pts, i + 1, spL, spR, target)))

\* an evaluateFitness whose pathPoints builds each first control handle in
\* the point itself, p1.add(p2 - p0 times t/3), instead of in a new Vector3
EvaluateCallInPlace(o, spL, spR, target) ==
  LET pts == << o.A >> \o o.g.ctrl \o << o.B >>
      n == Len(pts)
      p0(i) == pts[Max(1, i - 1)]
      p2(i) == pts[Min(n, i + 1)]
      moved(i) == [pts[i] EXCEPT !.x = @ + (p2(i).x - p0(i).x) \div 6,
                                 !.z = @ + (p2(i).z - p0(i).z) \div 6]
      ctrl == [i \in 1..Len(o.g.ctrl) |-> moved(i + 1)]
      fitness == evaluateFitness(o.g.ctrl, spL, spR, target)
  IN [value |-> fitness,
      o |-> [A |-> moved(1), B |-> o.B,
             g |-> [ctrl |-> ctrl, fitness |-> fitness]]]

\* one call of evaluateFitness(genome) on the objects it can reach, A, B and
\* the genome: pathPoints reads A, the control points and B into clones and
\* new vectors, the loop reads the sampled points, and the one write is
\* genome.fitness = fitness
EvaluateCall(o, spL, spR, target) ==
  Bind(evaluateFitness(o.g.ctrl, spL, spR, target), LAMBDA fitness :
    [value |-> fitness, o |-> [o EXCEPT !.g.fitness = fitness]])

\* pop.sort((a, b) => b.fitness - a.fitness): stable, fitness descending
RECURSIVE InsertSorted(_, _)
InsertSorted(sorted, g) ==
  IF sorted = << >> THEN << g >>
  ELSE IF Head(sorted).fitness >= g.fitness
       THEN << Head(sorted) >> \o InsertSorted(Tail(sorted), g)
       ELSE << g >> \o sorted

RECURSIVE SortFrom(_, _)
SortFrom(pop, i) ==
  IF i = 0 THEN << >>
  ELSE Bind(SortFrom(pop, i - 1), LAMBDA sorted : InsertSorted(sorted, pop[i]))

SortByFitness(pop) == SortFrom(pop, Len(pop))

\* a test that also lets a drawn genome of equal fitness take the place
DrawnBeatsOrTies(g, best) == g.fitness >= best.fitness

\* tournamentSelect's test of a drawn genome against the best so far
DrawnBeats(g, best) == g.fitness > best.fitness

\* the index of each genome tournamentSelect draws, pop[(rand()*pop.length)|0],
\* from draw i on
RECURSIVE TournamentDraws(_, _, _)
TournamentDraws(pop, s, i) ==
  IF i >= TournamentK THEN << >>
  ELSE Bind(randNext(s), LAMBDA s1 :
         << MulRand(s1, Len(pop)) + 1 >> \o TournamentDraws(pop, s1, i + 1))

\* tournamentSelect's loop: TournamentK draws, the first drawn genome or any
\* later one of strictly greater fitness is kept (best is its index, 0 = none)
RECURSIVE Tournament(_, _, _, _)
Tournament(pop, s, i, best) ==
  IF i >= TournamentK THEN [best |-> best, s |-> s]
  ELSE Bind(randNext(s), LAMBDA s1 :
       Bind(MulRand(s1, Len(pop)) + 1, LAMBDA idx :
       Bind(IF best = 0 \/ DrawnBeats(pop[idx], pop[best])
            THEN idx ELSE best, LAMBDA kept :
         Tournament(pop, s1, i + 1, kept))))

tournamentSelect(pop, e) ==
  Bind(Tournament(pop, e.s, 0, 0), LAMBDA t :
  Bind(cloneGenome(pop[t.best], e.n), LAMBDA c :
    [g |-> c.g, e |-> Env(t.s, c.n)]))

\* crossover's loop from index i (1-based): a coin for the direction, a
\* fraction t, and a new Vector3 between the parents' points
RECURSIVE CrossCtrl(_, _, _, _, _)
CrossCtrl(a, b, e, count, i) ==
  IF i > count THEN [ctrl |-> << >>, e |-> e]
  ELSE Bind(randNext(e.s), LAMBDA s1 :
       Bind(randNext(s1), LAMBDA s2 :
       Bind(CrossCtrl(a, b, Env(s2, e.n + 1), count, i + 1), LAMBDA rest :
         LET pickA == RandLess(s1, 1, 2)
             pa    == a.ctrl[i]
             pb    == b.ctrl[i]
             p     == [id |-> e.n,
                       x  |-> IF pickA THEN pa.x + MulRand(s2, pb.x - pa.x)
                                       ELSE pb.x + MulRand(s2, pa.x - pb.x),
                       z  |-> IF pickA THEN pa.z + MulRand(s2, pb.z - pa.z)
                                       ELSE pb.z + MulRand(s2, pa.z - pb.z)]
         IN [ctrl |-> << p >> \o rest.ctrl, e |-> rest.e])))

crossover(a, b, e, count) ==
  Bind(CrossCtrl(a, b, e, count, 1), LAMBDA made :
    [g |-> [ctrl |-> made.ctrl, fitness |-> NegInf], e |-> made.e])

\* mutate's loop over the clone's points from index i: with probability
\* mutationProb the point moves by up to mutationScale in x, 0.8 of it in z
RECURSIVE MutateCtrl(_, _, _, _)
MutateCtrl(ctrl, s, P, i) ==
  IF i > Len(ctrl) THEN [ctrl |-> ctrl, s |-> s]
  ELSE Bind(randNext(s), LAMBDA s1 :
         IF RandLess(s1, P.mutNum, P.mutDen)
         THEN Bind(randNext(s1), LAMBDA s2 :
              Bind(randNext(s2), LAMBDA s3 :
              Bind([ctrl EXCEPT
                      ![i].x = @ + RandOffset(s2, 4 * Unit),
                      ![i].z = @ + RandOffset(s3, (32 * Unit) \div 10)],
                   LAMBDA moved :
                MutateCtrl(moved, s3, P, i + 1))))
         ELSE MutateCtrl(ctrl, s1, P, i + 1))

\* a mutate that moves the points of the genome it is given: m = g
mutateInPlace(g, e, P) ==
  Bind(MutateCtrl(g.ctrl, e.s, P, 1), LAMBDA done :
    [g |-> [g EXCEPT !.ctrl = done.ctrl], e |-> Env(done.s, e.n)])

mutate(g, e, P) ==
  Bind(cloneGenome(g, e.n), LAMBDA m :
  Bind(MutateCtrl(m.g.ctrl, e.s, P, 1), LAMBDA done :
    [g |-> [m.g EXCEPT !.ctrl = done.ctrl], e |-> Env(done.s, m.n)]))

\* a loop test that lets the loop run once more: newPop.length <= popSize
PopulationFullLate(newPop, P) == Len(newPop) > P.popSize

\* the end of stepGen's while (newPop.length < PARAMS.popSize)
PopulationFull(newPop, P) == Len(newPop) >= P.popSize

\* the breeding loop of stepGen: while (newPop.length < popSize) two
\* tournaments, a crossover or a clone of one parent, a mutation, a push
RECURSIVE BreedLoop(_, _, _, _, _)
BreedLoop(newPop, pop, e, P, passes) ==
  IF PopulationFull(newPop, P) THEN [pop |-> newPop, e |-> e, bred |-> passes]
  ELSE Bind(tournamentSelect(pop, e), LAMBDA p1 :
       Bind(tournamentSelect(pop, p1.e), LAMBDA p2 :
       Bind(randNext(p2.e.s), LAMBDA s1 :
       Bind(IF RandLess(s1, P.crossNum, P.crossDen)
            THEN crossover(p1.g, p2.g, Env(s1, p2.e.n), P.ctrlCount)
            ELSE Bind(randNext(s1), LAMBDA s2 :
                 Bind(cloneGenome(IF RandLess(s2, 1, 2) THEN p1.g ELSE p2.g,
                                  p2.e.n), LAMBDA cl :
                   [g |-> cl.g, e |-> Env(s2, cl.n)])), LAMBDA c :
       Bind(mutate(c.g, c.e, P), LAMBDA m :
         BreedLoop(Append(newPop, m.g), pop, m.e, P,
                   Append(passes, [p1 |-> p1.g, p2 |-> p2.g, c |-> c.g,
                                   m |-> m.g])))))))

\* a newPop whose elite copy goes through mutate like the offspring
BuildNewPopMutatedElite(pop, e, P) ==
  Bind(cloneGenome(pop[1], e.n), LAMBDA elite :
  Bind(mutate(elite.g, Env(e.s, elite.n), P), LAMBDA m :
    BreedLoop(<< m.g >>, pop, m.e, P, << >>)))

\* newPop of stepGen as built: the elite copy first, then the offspring
BuildNewPop(pop, e, P) ==
  Bind(cloneGenome(pop[1], e.n), LAMBDA elite :
    BreedLoop(<< elite.g >>, pop, Env(e.s, elite.n), P, << >>))

\* a test that also replaces lastBest on equal fitness
BetterOrEqualToBest(first, best) == best = Null \/ first.fitness >= best.fitness

\* a test that replaces lastBest after every generation
AlwaysReplaceBest(first, best) == TRUE

\* whether stepGen replaces lastBest by the new population's first genome
BetterThanBest(first, best) == best = Null \/ first.fitness > best.fitness

\* the body of stepGen past its budget test: breed, evaluate, sort, replace
\* the population, and update the best-ever genome
GenerationStep(pop, best, e, P, spL, spR, target) ==
  Bind(BuildNewPop(pop, e, P), LAMBDA bred :
  Bind(EvaluateAll(bred.pop, spL, spR, target), LAMBDA evaluated :
  Bind(SortByFitness(evaluated), LAMBDA newPop :
  Bind(BetterThanBest(newPop[1], best), LAMBDA better :
  Bind(cloneGenome(newPop[1], bred.e.n), LAMBDA copy :
    [population |-> newPop,
     built      |-> bred.pop,
     bred       |-> bred.bred,
     better     |-> better,
     lastBest   |-> IF better THEN copy.g ELSE best,
     e          |-> Env(bred.e.s, IF better THEN copy.n ELSE bred.e.n)])))))

\* ------------------------------------------------------------ configuration
\* PARAMS of the program, probabilities as fractions: mutationProb 0.25,
\* crossProb 0.8
DefaultParams ==
  [popSize |-> PopSize, ctrlCount |-> CtrlCount, generations |-> Generations,
   mutNum |-> 1, mutDen |-> 4, crossNum |-> 4, crossDen |-> 5]

\* what Math.random() * 1e9 | 0 may give
Seeds == { 12345, 20240229 }

Targets == { "either", "left", "right" }

\* ------------------------------------------------------------------ actions
\* updateHUD: the generation counter and the first genome's fitness
HudEntry(g, pop) ==
  [gen  |-> g,
   best |-> IF Len(pop) > 0 THEN pop[1].fitness ELSE 0,
   size |-> Len(pop)]

RECURSIVE CtrlValuesFrom(_, _)
CtrlValuesFrom(ctrl, i) ==
  IF i > Len(ctrl) THEN << >>
  ELSE << Pt(ctrl[i].x, ctrl[i].z) >> \o CtrlValuesFrom(ctrl, i + 1)

\* the control points of a genome as values, without their identities
CtrlValues(g) == CtrlValuesFrom(g.ctrl, 1)

\* the (generation index, best fitness) pairs of the HUD entries from i on
RECURSIVE TraceFrom(_, _)
TraceFrom(h, i) ==
  IF i > Len(h) THEN << >>
  ELSE << << h[i].gen, h[i].best >> >> \o TraceFrom(h, i + 1)

\* a budget test that lets one more generation run: i > generations
BudgetReachedLate(i, P) == i > P.generations

\* stepGen's budget test: i >= generations
BudgetReached(i, P) == i >= P.generations

\* a stepGen that schedules its next call before its budget test
ConvergeTimerLeft(play) ==
  /\ running' = FALSE
  /\ headVisible' = (play \/ headVisible)
  /\ timer' = TRUE

\* stepGen past its budget: running = false; if (play) playBestPath()
Converge(play) ==
  /\ running' = FALSE
  /\ headVisible' = (play \/ headVisible)
  /\ timer' = FALSE

\* runEvolution up to its call of stepGen, from speakers at spL and spR:
\* reseed, jitter on a reseed request, seed and evaluate the population, copy
\* its best.  Every control point of an earlier run is dropped here, so the
\* identities of the new ones are counted from 1 again.
SeedRun(play, target, seed, spL, spR, P) ==
  Bind(seedRandom(seed), LAMBDA s0 :
  Bind(IF play
       THEN [speakerL |-> spL, speakerR |-> spR, s |-> s0]
       ELSE jitterSpeakers(s0, BaseSpeakerL, BaseSpeakerR, JitterAmount),
       LAMBDA jit :
  Bind(makeInitialPopulation(Env(jit.s, 1), P.popSize, P.ctrlCount),
       LAMBDA made :
  Bind(EvaluateAll(made.pop, jit.speakerL, jit.speakerR, target),
       LAMBDA evaluated :
  Bind(SortByFitness(evaluated), LAMBDA pop0 :
    [speakerL |-> jit.speakerL, speakerR |-> jit.speakerR, pop |-> pop0,
     e |-> made.e,
     first |-> IF Len(pop0) = 0 THEN Null
               ELSE cloneGenome(pop0[1], made.e.n)])))))

\* runEvolution(play, target) with Math.random() giving seed, when no run is
\* in progress; it ends with a first call of stepGen
runEvolution(play, target, seed) ==
  \E sr \in { SeedRun(play, target, seed, speakerL, speakerR, PARAMS) } :
     /\ restarted' = (runKey # Null)
     /\ runKey' = [seed |-> seed, play |-> play, target |-> target,
                   speakerL |-> speakerL, speakerR |-> speakerR]
     /\ speakerL' = sr.speakerL
     /\ speakerR' = sr.speakerR
     /\ TARGET' = target
     /\ playArg' = play
     /\ UNCHANGED << PARAMS, svg, fin, fout >>
     /\ IF Len(sr.pop) = 0
        THEN \* cloneGenome(population[0]) reads .ctrl of undefined
             /\ err' = "TypeError"
             /\ running' = TRUE
             /\ gen' = 0
             /\ rand' = sr.e.s
             /\ nextId' = sr.e.n
             /\ population' = sr.pop
             /\ stepI' = 0
             /\ hist' = << >>
             /\ shown' = << >>
             /\ modesRead' = << >>
             /\ UNCHANGED << lastBest, timer, headVisible, animPath, prevPop,
                             newPopBuilt, breeding >>
        ELSE IF BudgetReached(0, PARAMS)
        THEN \* showBest hides the head, stepGen returns at once
             /\ err' = "none"
             /\ gen' = 0
             /\ rand' = sr.e.s
             /\ nextId' = sr.first.n
             /\ population' = sr.pop
             /\ lastBest' = sr.first.g
             /\ animPath' = pathPoints(sr.first.g.ctrl, ShowSteps)
             /\ stepI' = 0
             /\ hist' = << HudEntry(0, sr.pop) >>
             /\ shown' = << sr.first.g.fitness >>
             /\ prevPop' = << >>
             /\ newPopBuilt' = << >>
             /\ breeding' = << >>
             /\ modesRead' = << target >>
             /\ running' = FALSE
             /\ headVisible' = play
             /\ timer' = FALSE
        ELSE \E step \in { GenerationStep(sr.pop, sr.first.g,
                                          Env(sr.e.s, sr.first.n), PARAMS,
                                          sr.speakerL, sr.speakerR, target) } :
             /\ err' = "none"
             /\ running' = TRUE
             /\ gen' = 1
             /\ rand' = step.e.s
             /\ nextId' = step.e.n
             /\ population' = step.population
             /\ lastBest' = step.lastBest
             /\ animPath' = pathPoints(step.lastBest.ctrl, ShowSteps)
             /\ headVisible' = FALSE
             /\ stepI' = 1
             /\ timer' = TRUE
             /\ hist' = << HudEntry(0, sr.pop), HudEntry(1, step.population) >>
             /\ shown' = IF step.better
                         THEN << sr.first.g.fitness, step.lastBest.fitness >>
                         ELSE << sr.first.g.fitness >>
             /\ prevPop' = sr.pop
             /\ newPopBuilt' = step.built
             /\ breeding' = step.bred
             /\ modesRead' = << target, target >>

\* a start request without the test of running
StartRequestUnguarded(play, target) ==
  \E seed \in Seeds : runEvolution(play, target, seed)

\* a start request: if (running) return
StartRequest(play, target) ==
  IF running
  THEN UNCHANGED vars
  ELSE \E seed \in Seeds : runEvolution(play, target, seed)

\* the Play button: runEvolution(true, TARGET)
ClickPlay == fin = Null /\ StartRequest(TRUE, TARGET)

\* the Re-run button and the restart link: runEvolution(false, TARGET)
ClickRerun == fin = Null /\ StartRequest(FALSE, TARGET)

\* a click that hits a speaker: TARGET = side; updateHUD();
\* runEvolution(true, side)
ClickSpeaker(side) ==
  /\ fin = Null
  /\ IF running
     THEN /\ TARGET' = side
          /\ UNCHANGED << PARAMS, speakerL, speakerR, rand, nextId, population,
                          gen, running, lastBest, stepI, playArg, timer,
                          headVisible, animPath, err, restarted, runKey, hist,
                          shown, prevPop, newPopBuilt, breeding, modesRead,
                          svg, fin, fout >>
     ELSE StartRequest(TRUE, side)

ClickSpeakerL == ClickSpeaker("left")

ClickSpeakerR == ClickSpeaker("right")

\* the callback of setTimeout(stepGen, 250)
stepGen ==
  /\ timer
  /\ UNCHANGED << PARAMS, speakerL, speakerR, TARGET, playArg, err, restarted,
                  runKey, svg, fin, fout >>
  /\ IF BudgetReached(stepI, PARAMS)
     THEN /\ UNCHANGED << rand, nextId, population, gen, lastBest, stepI,
                          animPath, hist, shown, prevPop, newPopBuilt,
                          breeding, modesRead >>
          /\ Converge(playArg)
     ELSE \E step \in { GenerationStep(population, lastBest, Env(rand, nextId),
                                        PARAMS, speakerL, speakerR, TARGET) } :
             /\ stepI' = stepI + 1
             /\ gen' = gen + 1
             /\ rand' = step.e.s
             /\ nextId' = step.e.n
             /\ population' = step.population
             /\ lastBest' = step.lastBest
             /\ animPath' = IF step.better
                            THEN pathPoints(step.lastBest.ctrl, ShowSteps)
                            ELSE animPath
             /\ headVisible' = (headVisible /\ ~step.better)
             /\ hist' = Append(hist, HudEntry(gen + 1, step.population))
             /\ shown' = IF step.better
                         THEN Append(shown, step.lastBest.fitness) ELSE shown
             /\ prevPop' = population
             /\ newPopBuilt' = step.built
             /\ breeding' = step.bred
             /\ modesRead' = Append(modesRead, TARGET)
             /\ timer' = TRUE
             /\ UNCHANGED running

\* ------------------------------------------------------------- the 2D view
\* the svg before the script runs: no dot, no callback pending
NoSvg ==
  [children |-> { }, frames |-> << >>, err |-> "none", dots |-> 0,
   creates |-> 0]

\* step of animateDot: Math.max(1, Math.floor(N / (dur / 16)))
DotStep == Max(1, DotSteps \div 200)

\* animateDot(pts, color, onEnd) up to its requestAnimationFrame(tick): a new
\* dot appended to the svg, i = 0
animateDot(sv, onEnd) ==
  [sv EXCEPT !.children = @ \cup { sv.dots + 1 },
             !.frames = Append(@, [dot |-> sv.dots + 1, i |-> 0,
                                   onEnd |-> onEnd]),
             !.dots = @ + 1]

\* create(): every child of the svg removed, the scene drawn again and the
\* dot of the best path started, with a second animation as its onEnd
create(sv) ==
  animateDot([sv EXCEPT !.children = { }, !.creates = @ + 1], TRUE)

\* tick of the animation t: i += step; at the end of the path
\* svg.removeChild(dot), which throws when dot is no child of svg, then
\* onEnd; before the end the dot moves on and tick is requested again
tick(sv, t) ==
  IF t.i + DotStep >= DotSteps
  THEN IF t.dot \in sv.children
       THEN LET removed == [sv EXCEPT !.children = @ \ { t.dot }]
            IN IF t.onEnd THEN animateDot(removed, FALSE) ELSE removed
       ELSE [sv EXCEPT !.err = "NotFoundError"]
  ELSE [sv EXCEPT !.frames = Append(@, [t EXCEPT !.i = @ + DotStep])]

\* one animation frame: the callbacks requested before it run in the order
\* of their requests, from callback k on
RECURSIVE RunCallbacks(_, _, _)
RunCallbacks(queue, k, sv) ==
  IF k > Len(queue) THEN sv ELSE RunCallbacks(queue, k + 1, tick(sv, queue[k]))

UnchangedButSvg ==
  UNCHANGED << PARAMS, speakerL, speakerR, TARGET, rand, nextId, population,
               gen, running, lastBest, stepI, playArg, timer, headVisible,
               animPath, err, restarted, runKey, hist, shown, prevPop,
               newPopBuilt, breeding, modesRead, fin, fout >>

\* a click on btnPlay or on btnReseed: play() and reseed() are both create()
SvgClick ==
  /\ fin = Null
  /\ svg.creates < MaxCreates
  /\ svg' = create(svg)
  /\ UnchangedButSvg

\* the browser runs an animation frame
SvgFrame ==
  /\ fin = Null
  /\ svg.frames # << >>
  /\ svg' = RunCallbacks(svg.frames, 1, [svg EXCEPT !.frames = << >>])
  /\ UnchangedButSvg

\* --------------------------------------------------------------------- Init
\* the state init() leaves: a seeded, unevaluated population from
\* seedRandom(12345), no run in progress
InitWith(P) ==
  \E made \in { makeInitialPopulation(Env(seedRandom(12345), 1), P.popSize,
                                       P.ctrlCount) } :
     /\ PARAMS = P
     /\ speakerL = BaseSpeakerL
     /\ speakerR = BaseSpeakerR
     /\ TARGET = "either"
     /\ rand = made.e.s
     /\ nextId = made.e.n
     /\ population = made.pop
     /\ gen = 0
     /\ running = FALSE
     /\ lastBest = Null
     /\ stepI = 0
     /\ playArg = FALSE
     /\ timer = FALSE
     /\ headVisible = FALSE
     /\ animPath = << >>
     /\ err = "none"
     /\ restarted = FALSE
     /\ runKey = Null
     /\ hist = << >>
     /\ shown = << >>
     /\ prevPop = << >>
     /\ newPopBuilt = << >>
     /\ breeding = << >>
     /\ modesRead = << >>
     /\ svg = create(NoSvg)

Init == InitWith(DefaultParams) /\ fin = Null /\ fout = Null

Next == ClickPlay \/ ClickRerun \/ ClickSpeakerL \/ ClickSpeakerR \/ stepGen

Spec == Init /\ [][Next]_vars

NextSvg == SvgClick \/ SvgFrame

\* the page of the 2D view
SpecSvg == Init /\ [][NextSvg]_vars

\* ------------------------------------------- the pure functions on inputs
\* control points the 3D curve builder is tried with: A itself, a point
\* between A and B, and B itself
CtrlPoints3 == { WorldA, Pt(0, 2 * Unit), WorldB }

\* control points the 2D curve builder is tried with
CtrlPoints2 == { SvgA, [x |-> 500, y |-> 300], [x |-> 900, y |-> 600] }

\* base positions jitterSpeakers is tried with: the program's, both speakers
\* on one base, and two bases a few units apart
JitterBases ==
  { << BaseSpeakerL, BaseSpeakerR >>,
    << BaseSpeakerL, BaseSpeakerL >>,
    << BaseSpeakerR, Pt(9 * Unit, 8 * Unit) >> }

\* fitness values of a sorted population, equal ones among them
SortedFitness ==
  { f \in [1..PopSize -> { 1, 2, 3 }] :
      \A i \in 1..(PopSize - 1) : f[i] >= f[i + 1] }

PureInputs ==
  [kind : { "pathPoints" }, ctrl : [1..CtrlCount -> CtrlPoints3],
   steps : 1..MaxSteps]
  \cup
  [kind : { "bezierPoints" }, ctrl : [1..CtrlCount -> CtrlPoints2],
   steps : 1..MaxSteps]
  \cup
  [kind : { "jitterSpeakers" }, bases : JitterBases, seed : Seeds]
  \cup
  [kind : { "evaluateFitness" }, ctrl : [1..CtrlCount -> CtrlPoints3],
   chosen : Targets \cup { "none" }]
  \cup
  [kind : { "tournamentSelect" }, fitness : SortedFitness, seed : Seeds,
   skip : 0..4]

UnchangedProgram ==
  UNCHANGED << PARAMS, speakerL, speakerR, TARGET, rand, nextId, population,
               gen, running, lastBest, stepI, playArg, timer, headVisible,
               animPath, err, restarted, runKey, hist, shown, prevPop,
               newPopBuilt, breeding, modesRead, svg >>

ApplyPathPoints ==
  /\ fin # Null /\ fout = Null /\ fin.kind = "pathPoints"
  /\ fout' = [pts |-> pathPoints(fin.ctrl, fin.steps)]
  /\ UNCHANGED fin /\ UnchangedProgram

ApplyBezierPoints ==
  /\ fin # Null /\ fout = Null /\ fin.kind = "bezierPoints"
  /\ fout' = [pts |-> bezierPoints(fin.ctrl, fin.steps)]
  /\ UNCHANGED fin /\ UnchangedProgram

ApplyJitterSpeakers ==
  /\ fin # Null /\ fout = Null /\ fin.kind = "jitterSpeakers"
  /\ fout' = jitterSpeakers(seedRandom(fin.seed), fin.bases[1], fin.bases[2],
                            JitterAmount)
  /\ UNCHANGED fin /\ UnchangedProgram

\* the genome of control points ctrl, not yet evaluated
GenomeOf(ctrl) ==
  [ctrl    |-> [i \in 1..Len(ctrl) |->
                  [id |-> i, x |-> ctrl[i].x, z |-> ctrl[i].z]],
   fitness |-> NegInf]

\* evaluateFitness called twice on one genome, after a click on the chosen
\* speaker or, with none chosen, under TARGET as the page set it
ApplyEvaluateFitness ==
  /\ fin # Null /\ fout = Null /\ fin.kind = "evaluateFitness"
  /\ \E mode \in { IF fin.chosen = "none" THEN TARGET ELSE fin.chosen } :
     \E o \in { [A |-> WorldA, B |-> WorldB, g |-> GenomeOf(fin.ctrl)] } :
     \E first \in { EvaluateCall(o, speakerL, speakerR, mode) } :
     \E second \in { EvaluateCall(first.o, speakerL, speakerR, mode) } :
     \E pts \in { pathPoints(o.g.ctrl, FitSteps) } :
        fout' = [first |-> first.value, second |-> second.value,
                 before |-> o, after |-> second.o, mode |-> mode,
                 samples |-> RewardSamples(pts, 1, speakerL, speakerR, mode),
                 len |-> PathLength(pts, 2)]
  /\ UNCHANGED fin /\ UnchangedProgram

\* the generator word after n draws
RECURSIVE RandSkip(_, _)
RandSkip(s, n) == IF n = 0 THEN s ELSE RandSkip(randNext(s), n - 1)

\* tournamentSelect(population) on the population init() seeds, with the
\* fitness values of the input, at some point in the generator's sequence
ApplyTournamentSelect ==
  /\ fin # Null /\ fout = Null /\ fin.kind = "tournamentSelect"
  /\ \E pop \in { [i \in 1..Len(population) |->
                     [population[i] EXCEPT !.fitness = fin.fitness[i]]] } :
     \E s \in { RandSkip(seedRandom(fin.seed), fin.skip) } :
     \E sel \in { tournamentSelect(pop, Env(s, nextId)) } :
        fout' = [pop |-> pop, draws |-> TournamentDraws(pop, s, 0),
                 g |-> sel.g, e |-> sel.e]
  /\ UNCHANGED fin /\ UnchangedProgram

InitPure == InitWith(DefaultParams) /\ fin \in PureInputs /\ fout = Null

NextPure ==
  \/ ApplyPathPoints
  \/ ApplyBezierPoints
  \/ ApplyJitterSpeakers
  \/ ApplyEvaluateFitness
  \/ ApplyTournamentSelect

SpecPure == InitPure /\ [][NextPure]_vars

\* ------------------------------------------------ other configurations
\* PARAMS as the page may be configured: the program's values, no
\* generations at all, and values that are no population size, no count or
\* no probability
Configs ==
  { DefaultParams,
    [DefaultParams EXCEPT !.generations = 0],
    [DefaultParams EXCEPT !.popSize = 0],
    [DefaultParams EXCEPT !.ctrlCount = 0],
    [DefaultParams EXCEPT !.mutNum = 5],
    [DefaultParams EXCEPT !.crossNum = -1] }

InitCfg == (\E P \in Configs : InitWith(P)) /\ fin = Null /\ fout = Null

SpecCfg == InitCfg /\ [][Next]_vars

\* PARAMS with mutation probability 0 and crossover probability 0
CloneOnlyParams == [DefaultParams EXCEPT !.mutNum = 0, !.crossNum = 0]

InitClone == InitWith(CloneOnlyParams) /\ fin = Null /\ fout = Null

SpecClone == InitClone /\ [][Next]_vars

\* the timer of setTimeout(stepGen, 250) fires once it is set
SpecFair == Spec /\ WF_vars(stepGen)

\* ------------------------------------------------------ a run left alone
\* stepGen after stepGen from step i to the budget, nothing else in between:
\* the (generation index, best fitness) pairs the HUD shows and the control
\* points of the final best genome
RECURSIVE RunFrom(_, _, _, _, _, _, _, _, _)
RunFrom(pop, best, e, i, P, spL, spR, target, trace) ==
  IF BudgetReached(i, P) THEN [trace |-> trace, best |-> CtrlValues(best)]
  ELSE Bind(GenerationStep(pop, best, e, P, spL, spR, target), LAMBDA step :
         RunFrom(step.population, step.lastBest, step.e, i + 1, P, spL, spR,
                 target,
                 Append(trace, << i + 1, step.population[1].fitness >>)))

\* runEvolution(key.play, key.target) with Math.random() giving key.seed,
\* begun with the speakers where key has them, under configuration P
IndependentRun(key, P) ==
  Bind(SeedRun(key.play, key.target, key.seed, key.speakerL, key.speakerR, P),
       LAMBDA sr :
    RunFrom(sr.pop, sr.first.g, Env(sr.e.s, sr.first.n), 0, P, sr.speakerL,
            sr.speakerR, key.target, << << 0, sr.pop[1].fitness >> >>))

\* ------------------------------------------------------------------- claims
\* C1: in every run the population holds exactly PARAMS.popSize genomes
\* after seeding and after every generation step, the elite copy counted
\* with the bred offspring: every HUD update of a run saw popSize genomes,
\* and newPop held popSize genomes when the breeding loop left it.
PopulationSizeKept ==
  /\ Len(population) = PARAMS.popSize
  /\ \A i \in DOMAIN hist : hist[i].size = PARAMS.popSize
  /\ (newPopBuilt # << >> => Len(newPopBuilt) = PARAMS.popSize)

\* a run that went through seeding and all its generation steps
PopulationSizeKeptWitness ==
  /\ ~running
  /\ runKey # Null
  /\ Len(hist) = PARAMS.generations + 1
  /\ Len(newPopBuilt) = PARAMS.popSize

\* C2: within one run the fitness values of the genomes handed to showBest
\* form a non-decreasing sequence, from the initial evaluation to convergence.
BestShownNonDecreasing ==
  \A i \in 1..(Len(shown) - 1) : shown[i] <= shown[i + 1]

\* a converged run whose showBest was called again after the initial one,
\* with a speaker click in between that changed what fitness rewards
BestShownNonDecreasingWitness ==
  /\ ~running
  /\ runKey # Null
  /\ Len(shown) >= 2
  /\ TARGET # runKey.target

\* C4: in every generation step the first genome of newPop is a copy of the
\* highest-fitness genome of the previous population with identical control
\* points (new points, same values, same fitness), made before any offspring
\* was bred (its points were allocated before every offspring's) and never
\* crossed or mutated.
EliteCopiedFirst ==
  newPopBuilt # << >> =>
    /\ \A i \in DOMAIN prevPop : prevPop[1].fitness >= prevPop[i].fitness
    /\ CtrlValues(newPopBuilt[1]) = CtrlValues(prevPop[1])
    /\ newPopBuilt[1].fitness = prevPop[1].fitness
    /\ \A k \in DOMAIN newPopBuilt[1].ctrl :
          /\ \A j \in DOMAIN prevPop : \A m \in DOMAIN prevPop[j].ctrl :
                newPopBuilt[1].ctrl[k].id # prevPop[j].ctrl[m].id
          /\ \A j \in 2..Len(newPopBuilt) : \A m \in DOMAIN newPopBuilt[j].ctrl :
                newPopBuilt[1].ctrl[k].id < newPopBuilt[j].ctrl[m].id

\* a generation step whose offspring differ from the elite copy, one of them
\* by a mutation or crossover that left none of its parents' points in place
EliteCopiedFirstWitness ==
  /\ newPopBuilt # << >>
  /\ gen >= 2
  /\ \A j \in 2..Len(newPopBuilt) :
        CtrlValues(newPopBuilt[j]) # CtrlValues(newPopBuilt[1])
  /\ \E j \in 2..Len(newPopBuilt) : \A i \in DOMAIN prevPop :
        CtrlValues(newPopBuilt[j]) # CtrlValues(prevPop[i])

\* C7 as the program has it: within a run, which begins with lastBest set to
\* a copy of the seeded population's best genome, lastBest is replaced only
\* when the new population's first genome has strictly greater fitness than
\* lastBest; on a generation step where it is equal or lower, lastBest is left
\* unchanged and showBest is not called.  The step is stepGen's, run by the
\* timer or as the last call of runEvolution (there lastBest is the copy of
\* the seeded population's best, whose fitness is the first entry of shown).
BestReplacedOnlyByBetter ==
  [][ /\ (running /\ gen' = gen + 1) =>
           IF population'[1].fitness > lastBest.fitness
           THEN /\ lastBest'.fitness = population'[1].fitness
                /\ CtrlValues(lastBest') = CtrlValues(population'[1])
                /\ shown' = Append(shown, lastBest'.fitness)
           ELSE /\ lastBest' = lastBest
                /\ shown' = shown
                /\ animPath' = animPath
                /\ headVisible' = headVisible
      /\ (~running /\ gen' = 1) =>
           IF population'[1].fitness > shown'[1]
           THEN /\ lastBest'.fitness = population'[1].fitness
                /\ CtrlValues(lastBest') = CtrlValues(population'[1])
                /\ shown' = << shown'[1], lastBest'.fitness >>
           ELSE /\ lastBest'.fitness = shown'[1]
                /\ Len(shown') = 1
    ]_vars

\* a run that ended with two steps behind it, the first of which replaced
\* lastBest and the second of which found only an equal or lower best
BestReplacedOnlyByBetterWitness ==
  /\ ~running
  /\ Len(hist) >= 3
  /\ Len(shown) = 2
  /\ hist[2].best > shown[1]
  /\ hist[3].best <= shown[2]

\* C7: the best-ever genome lastBest is replaced only when a genome of
\* strictly greater fitness than the current best-ever is found; otherwise
\* lastBest is left unchanged and no render update is issued.
BestReplacedOnlyWhenGreater ==
  [][ (lastBest # Null /\ (lastBest' # lastBest \/ animPath' # animPath))
        => lastBest'.fitness > lastBest.fitness ]_vars

\* C3: for a fixed seed and configuration, two independent runs of
\* runEvolution from the same world state produce identical sequences of
\* (generation index, best fitness) and an identical final best genome: a
\* run that has ended shows the sequence, and leaves the final best genome,
\* of an independent run from the same seed, request, speaker positions and
\* configuration.
RunsAreDeterministic ==
  (~running /\ runKey # Null) =>
     [trace |-> TraceFrom(hist, 1), best |-> CtrlValues(lastBest)]
       = IndependentRun(runKey, PARAMS)

\* C5: starting a run with an invalid configuration (a population size or
\* control-point count that is no positive integer, a mutation or crossover
\* probability outside [0,1]) is reported as a configuration error and the
\* run does not proceed.
InvalidConfigRejected ==
  ( /\ runKey # Null
    /\ \/ PARAMS.popSize < 1
       \/ PARAMS.ctrlCount < 1
       \/ PARAMS.mutNum < 0 \/ PARAMS.mutNum > PARAMS.mutDen
       \/ PARAMS.crossNum < 0 \/ PARAMS.crossNum > PARAMS.crossDen )
  => (err = "ConfigurationError" /\ ~running /\ hist = << >>)

\* C6: after jitterSpeakers the distance between speakerL and speakerR is at
\* least minDist; a jitter that brings them closer is corrected by moving
\* speakerR along x, and a jitter that does not is left as drawn.
SpeakersKeptApart ==
  (fout # Null /\ fin.kind = "jitterSpeakers") =>
     /\ Dist2(fout.speakerL, fout.speakerR) >= MinDist * MinDist
     /\ fout.speakerR.z = fout.raw.z
     /\ Dist2(fout.speakerL, fout.raw) >= MinDist * MinDist
          => fout.speakerR = fout.raw
     /\ Dist2(fout.speakerL, fout.raw) < MinDist * MinDist
          => (fout.speakerR.x - fout.speakerL.x) \in { MinDist, 0 - MinDist }

\* a jitter that drew the two speakers closer than minDist
SpeakersKeptApartWitness ==
  /\ fout # Null
  /\ fin.kind = "jitterSpeakers"
  /\ Dist2(fout.speakerL, fout.raw) < MinDist * MinDist
  /\ fout.speakerR # fout.raw

\* C8: with every scheduled timer callback firing in the end, every run
\* begun by an accepted start request executes exactly PARAMS.generations
\* generation steps, the generation counter going from 0 to the budget by
\* one, and then converges: running is cleared and a later start request is
\* accepted (the step that follows a converged run is the start of a new
\* run).
RunsToConvergence ==
  /\ [](runKey # Null =>
          /\ gen <= PARAMS.generations
          /\ stepI = gen
          /\ Len(hist) = gen + 1
          /\ \A i \in DOMAIN hist : hist[i].gen = i - 1
          /\ (~running => gen = PARAMS.generations))
  /\ (running ~> ~running)
  /\ [][ (~running /\ runKey # Null) =>
           (restarted' /\ runKey' # Null /\ gen' <= 1 /\ hist'[1].gen = 0) ]_vars

\* a run that was started after an earlier run had ended, and has ended
RunsToConvergenceWitness ==
  /\ restarted
  /\ ~running
  /\ gen = PARAMS.generations
  /\ Len(hist) = PARAMS.generations + 1

\* C9 as the program has it: pathPoints(genome, steps) returns steps + 1
\* points; bezierPoints(ctrl, n) returns, for each of its segments, one point
\* per j = 0, 1, .. below n / segments, which is n points in all when the
\* segments divide n.
CurveSampleCounts ==
  fout # Null =>
     /\ fin.kind = "pathPoints" => Len(fout.pts) = fin.steps + 1
     /\ fin.kind = "bezierPoints" =>
          LET segs == Len(fin.ctrl) + 1
          IN /\ Len(fout.pts) = segs * ((fin.steps + segs - 1) \div segs)
             /\ (fin.steps % segs = 0 => Len(fout.pts) = fin.steps)

\* pathPoints asked for more than one sample
CurveSampleCountsWitness ==
  /\ fout # Null
  /\ fin.kind = "pathPoints"
  /\ fin.steps > 1
  /\ Len(fout.pts) = fin.steps + 1

\* C9: for every genome and every sample count steps, pathPoints and
\* bezierPoints return a sequence of exactly steps points.
CurveSampleCountIsSteps ==
  (fout # Null /\ fin.kind \in { "pathPoints", "bezierPoints" }) =>
     Len(fout.pts) = fin.steps

RECURSIVE SumOfLoud(_, _)
SumOfLoud(samples, i) ==
  IF i > Len(samples) THEN 0 ELSE samples[i].loud + SumOfLoud(samples, i + 1)

RewardFollowsMode ==
  (fout # Null /\ fin.kind = "evaluateFitness") =>
     /\ fin.chosen = "none" => fout.mode = "either"
     /\ fin.chosen # "none" => fout.mode = fin.chosen
     /\ Len(fout.samples) = FitSteps + 1
     /\ \A k \in DOMAIN fout.samples :
           LET q == fout.samples[k]
           IN /\ fout.mode = "left" => q.loud = q.il
              /\ fout.mode = "right" => q.loud = q.ir
              /\ fout.mode = "either" =>
                    /\ q.loud >= q.il
                    /\ q.loud >= q.ir
                    /\ q.loud \in { q.il, q.ir }
     /\ fout.first = SumOfLoud(fout.samples, 1)
                       - ((IScale \div 4) * fout.len) \div (Unit * FitSteps)
                       + IScale

\* a path evaluated for the right speaker that has a sample where the left
\* speaker is the louder one
RewardFollowsModeWitness ==
  /\ fout # Null
  /\ fin.kind = "evaluateFitness"
  /\ fout.mode = "right"
  /\ \E k \in DOMAIN fout.samples : fout.samples[k].il > fout.samples[k].ir

\* the identities of the control points of genome g
PointIds(g) == { g.ctrl[i].id : i \in DOMAIN g.ctrl }

\* C12: tournamentSelect(pop, k) returns a copy of the genome with the
\* highest fitness among the k genomes it draws from pop, the first one drawn
\* when several drawn genomes tie for the highest fitness; the copy has
\* control points of its own, so changing it changes no genome of pop.
TournamentReturnsBestDrawn ==
  (fout # Null /\ fin.kind = "tournamentSelect") =>
     /\ Len(fout.draws) = TournamentK
     /\ \E k \in DOMAIN fout.draws :
           LET won == fout.pop[fout.draws[k]]
           IN /\ \A j \in DOMAIN fout.draws :
                    fout.pop[fout.draws[j]].fitness <= won.fitness
              /\ \A j \in 1..(k - 1) :
                    fout.pop[fout.draws[j]].fitness < won.fitness
              /\ CtrlValues(fout.g) = CtrlValues(won)
              /\ fout.g.fitness = won.fitness
     /\ \A i \in DOMAIN fout.pop : PointIds(fout.g) \cap PointIds(fout.pop[i]) = { }
     /\ Cardinality(PointIds(fout.g)) = Len(fout.g.ctrl)

\* a tournament that drew a genome of lower fitness and two different
\* genomes that tie for the highest fitness drawn
TournamentReturnsBestDrawnWitness ==
  /\ fout # Null
  /\ fin.kind = "tournamentSelect"
  /\ \E i, j, k \in DOMAIN fout.draws :
        /\ j < k
        /\ fout.draws[j] # fout.draws[k]
        /\ fout.pop[fout.draws[j]].fitness = fout.pop[fout.draws[k]].fitness
        /\ fout.pop[fout.draws[i]].fitness < fout.pop[fout.draws[j]].fitness
        /\ CtrlValues(fout.g) = CtrlValues(fout.pop[fout.draws[j]])

\* whether genome g has the control-point values and fitness of a member of pop
CopyOfMember(g, pop) ==
  \E i \in DOMAIN pop :
     CtrlValues(g) = CtrlValues(pop[i]) /\ g.fitness = pop[i].fitness

\* whether genome g owns none of the point objects of the members of pop
SharesNoPoint(g, pop) ==
  \A i \in DOMAIN pop : PointIds(g) \cap PointIds(pop[i]) = { }

\* C13: during a generation step no genome of the current population has its
\* control points altered: every point object the step writes is one it made
\* itself.  The parents are copies of members of the population the step
\* began with, in every pass of the loop; the elite, the parents and the
\* children own none of that population's points; mutate returns a genome
\* with points of its own and not the points of the genome it was given; and
\* the population after the step is newPop, all of it, sorted.
GenerationStepWorksOnCopies ==
  newPopBuilt # << >> =>
     /\ Len(breeding) = Len(newPopBuilt) - 1
     /\ SharesNoPoint(newPopBuilt[1], prevPop)
     /\ \A k \in DOMAIN breeding :
           LET b == breeding[k]
           IN /\ CopyOfMember(b.p1, prevPop)
              /\ CopyOfMember(b.p2, prevPop)
              /\ SharesNoPoint(b.p1, prevPop)
              /\ SharesNoPoint(b.p2, prevPop)
              /\ SharesNoPoint(b.c, prevPop)
              /\ SharesNoPoint(b.m, prevPop)
              /\ PointIds(b.m) \cap PointIds(b.c) = { }
              /\ newPopBuilt[k + 1] = b.m
     /\ Len(population) = Len(newPopBuilt)
     /\ \A j \in DOMAIN newPopBuilt :
           \E i \in DOMAIN population : population[i].ctrl = newPopBuilt[j].ctrl

\* a generation step with a pass whose mutation moved a point of the child
\* and a pass whose parents are copies of two different members
GenerationStepWorksOnCopiesWitness ==
  /\ newPopBuilt # << >>
  /\ gen >= 2
  /\ \E k \in DOMAIN breeding :
        CtrlValues(breeding[k].m) # CtrlValues(breeding[k].c)
  /\ \E k \in DOMAIN breeding :
        CtrlValues(breeding[k].p1) # CtrlValues(breeding[k].p2)

\* the genomes that exist after the last generation step: the population it
\* bred from, the parents and the child of each pass before its mutation,
\* the population, and the best-ever genome
RECURSIVE PassGenomes(_, _)
PassGenomes(passes, k) ==
  IF k > Len(passes) THEN << >>
  ELSE << passes[k].p1, passes[k].p2, passes[k].c >> \o PassGenomes(passes, k + 1)

LiveGenomes ==
  prevPop \o PassGenomes(breeding, 1) \o population
  \o (IF lastBest = Null THEN << >> ELSE << lastBest >>)

\* the number of control points of the genomes of gs from index i on
RECURSIVE CountPoints(_, _)
CountPoints(gs, i) ==
  IF i > Len(gs) THEN 0 ELSE Len(gs[i].ctrl) + CountPoints(gs, i + 1)

\* C14: after any sequence of seeding, selection, crossover, mutation and
\* elitism no control-point object is shared between two genomes: the
\* members of the population, the best-ever genome, the parents and their
\* offspring each own distinct point objects.
NoPointShared ==
  Cardinality(UNION { PointIds(LiveGenomes[i]) : i \in DOMAIN LiveGenomes })
    = CountPoints(LiveGenomes, 1)

\* a run after its second generation step, with a best-ever genome kept from
\* an earlier step and a child that crossover made
NoPointSharedWitness ==
  /\ gen >= 2
  /\ lastBest # Null
  /\ population[1].fitness <= lastBest.fitness
  /\ \E k \in DOMAIN breeding :
        /\ ~CopyOfMember(breeding[k].c, << breeding[k].p1 >>)
        /\ ~CopyOfMember(breeding[k].c, << breeding[k].p2 >>)

PopulationIsCompleteGeneration ==
  /\ \A i \in DOMAIN population : population[i].fitness # NegInf
  /\ \A i \in 1..(Len(population) - 1) :
        population[i].fitness >= population[i + 1].fitness

\* C17: with mutation probability 0 and crossover probability 0 every
\* genome of generation g+1 has control points equal to those of some genome
\* of generation g, and the best fitness shown per generation is
\* non-decreasing over the run.
ClonesOnlyAndBestNonDecreasing ==
  /\ \A j \in DOMAIN newPopBuilt :
        \E i \in DOMAIN prevPop :
           CtrlValues(newPopBuilt[j]) = CtrlValues(prevPop[i])
  /\ \A i \in 1..(Len(hist) - 1) : hist[i].best <= hist[i + 1].best

\* C18: for every sampled point of the path shown, for the head positions
\* between them and for both speaker positions, the two balance shares
\* blueness = Il/(Il+Ir) and redness = Ir/(Il+Ir) each lie in [0,1] and sum
\* to 1.
BalanceSharesSumToOne ==
  \A p \in { animPath[k] : k \in DOMAIN animPath }
          \cup { HeadPositions(animPath)[k] : k \in 1..(Len(animPath) - 1) } :
     LET b == Balance(p, speakerL, speakerR)
     IN /\ 0 <= b.blueness /\ b.blueness <= b.den
        /\ 0 <= b.redness /\ b.redness <= b.den
        /\ b.blueness + b.redness = b.den

\* a path shown after a reseed moved the speakers, with a point where the
\* left speaker has the larger share and a point where the right one has
BalanceSharesSumToOneWitness ==
  /\ animPath # << >>
  /\ speakerL # BaseSpeakerL
  /\ \E k \in DOMAIN animPath :
        LET b == Balance(animPath[k], speakerL, speakerR)
        IN b.blueness > b.redness
  /\ \E k \in DOMAIN animPath :
        LET b == Balance(animPath[k], speakerL, speakerR)
        IN b.redness > b.blueness

\* C20: within one run the convergence action (running is cleared and, when
\* play is set, the playback of the best path begins) happens exactly once:
\* it happens only when the run has completed as many generation steps as
\* the budget has, it changes nothing of the population, every run in
\* progress gets to it, and once it has happened no callback of the run is
\* pending, so the next step is the start of another run and no generation
\* step of this run follows.
ConvergesExactlyOnce ==
  /\ [][ (running /\ ~running') =>
           /\ stepI = PARAMS.generations
           /\ Len(hist) = PARAMS.generations + 1
           /\ timer /\ ~timer'
           /\ playArg => headVisible'
           /\ ~playArg => (headVisible' = headVisible)
           /\ UNCHANGED << population, lastBest, gen, stepI, hist, shown,
                           rand, animPath, runKey >> ]_vars
  /\ [](~running => ~timer)
  /\ (running ~> (~running /\ ~timer /\ gen = PARAMS.generations))
  /\ [][ (~running /\ runKey # Null) =>
           (running' /\ restarted' /\ stepI' = 1 /\ Len(hist') = 2) ]_vars

\* a run begun by Play that has converged: the head of the best path shows
ConvergesExactlyOnceWitness ==
  /\ ~running
  /\ runKey # Null
  /\ runKey.play
  /\ headVisible
  /\ stepI = PARAMS.generations
  /\ ~timer

ModeFixedWithinRun ==
  \A i, j \in DOMAIN modesRead : modesRead[i] = modesRead[j]

\* C23: after the initial evaluation and after every completed generation
\* step of a run the fitness of population[0] equals lastBest.fitness: the
\* best-ever genome is never lost from the population, and the best fitness
\* per generation never decreases.
BestEverStaysInPopulation ==
  (runKey # Null /\ lastBest # Null) =>
     /\ population[1].fitness = lastBest.fitness
     /\ \A i \in 1..(Len(hist) - 1) : hist[i].best <= hist[i + 1].best

\* C24: in the 2D view, under every interleaving of Play and Reseed clicks
\* (each of which clears and rebuilds the svg) with animation frames, every
\* animateDot animation that reaches the end of its path removes a dot that
\* is still a child of the svg: the removal never throws, so the end callback
\* always runs.
DotRemovalNeverFails == svg.err = "none"

====
